---- MODULE Spec2Model ----
(***************************************************************************)
(* Model of the TriviaGame component (src/src/components/TrivaGame.jsx):   *)
(* the question loader with its 429 retry policy (fetchQuestions), the     *)
(* answer / auto-advance / restart handlers, and the render that derives   *)
(* the screen shown and the shuffled answer list from the hook state.      *)
(*                                                                         *)
(* Execution is single-threaded: every action below is one event-loop task *)
(* (a mount effect, a promise continuation, a timer callback or a click    *)
(* handler) run to completion, followed by the re-render it causes.        *)
(***************************************************************************)
EXTENDS Integers, Sequences, FiniteSets, TLC

\* ------------------------------------------------------------------ bounds
\* Largest number of questions the service puts in one results array.
MaxQuestions == 2

\* ------------------------------------------------------- program constants
\* retryCount < 3 in the catch block.
MaxRetries == 3
\* err.response.status value that triggers a retry.
RateLimitStatus == 429
\* response_code value that means success.
ResponseOk == 0

\* ------------------------------------------------------------ value domains
\* JavaScript null, as held by error and selectedAnswer.
Null == "null"

\* The message setError stores in the catch block.
ErrorMessage == "Failed to fetch questions. Please try refreshing the page in a few moments."

\* Outcomes of an axios.get call: 200 resolves the promise, every other value
\* rejects it.  NoResponse is a rejection without err.response (network error).
NoResponse == 0
HttpOk == 200
Statuses == {HttpOk, RateLimitStatus, 500, NoResponse}

\* Values of response.data.response_code the service may send.
ResponseCodes == {ResponseOk, 1, 4}

\* Values of tokenResponse.data.token the service may send.
Tokens == {"tokA", "tokB"}

\* Items of response.data.results: one correct answer and K >= 1 incorrect ones.
QuestionPool ==
    { [correct_answer |-> "Paris", incorrect_answers |-> <<"Rome", "42">>],
      [correct_answer |-> "42",    incorrect_answers |-> <<"7">>] }

\* The results arrays the service may send (the empty one included).
Batches == UNION { [1..n -> QuestionPool] : n \in 0..MaxQuestions }

VARIABLES
    \* hook state of the component
    questions, loading, error, currentQuestionIndex, selectedAnswer, score,
    showResult, gameOver,
    \* what the last render computed for the answer buttons (<<>> when the
    \* main game display is not the branch rendered)
    allAnswers,
    \* whether the component is mounted
    mounted,
    \* fetchQuestions: position of the running invocation, its retryCount
    \* argument and its token constant
    pc, retryCount, token,
    \* pending auto-advance timeouts, oldest first; each holds the values its
    \* callback closed over
    timers,
    \* history: requests issued, whether every response so far was a 429,
    \* the answers accepted in the current play-through, the last event run
    tokenReqs, questionReqs, only429, picks, lastEvent

hookState == <<questions, loading, error, currentQuestionIndex, selectedAnswer,
               score, showResult, gameOver>>

loaderState == <<pc, retryCount, token>>

history == <<tokenReqs, questionReqs, only429, picks, lastEvent>>

vars == <<questions, loading, error, currentQuestionIndex, selectedAnswer,
          score, showResult, gameOver, allAnswers, mounted, pc, retryCount,
          token, timers, tokenReqs, questionReqs, only429, picks, lastEvent>>

\* ------------------------------------------------------------------ render
\* The branch of the component's return that is taken.
Screen(ld, err, go, qs, sr) ==
    IF ld THEN "Loading"
    ELSE IF err # Null THEN "Failed"
    ELSE IF go THEN "Finished"
    ELSE IF Len(qs) > 0 THEN (IF sr THEN "Feedback" ELSE "Active")
    ELSE "Blank"

Phase == Screen(loading, error, gameOver, questions, showResult)

\* [...incorrect_answers, correct_answer]
Combined(q) == q.incorrect_answers \o <<q.correct_answer>>

\* An insertion step that overwrites the element it should move.
InsertShifted_Overwrite(sorted, x, shift) ==
    SubSeq(sorted, 1, Len(sorted) - shift) \o <<x>>
        \o SubSeq(sorted, Len(sorted) - shift + 2, Len(sorted))

\* One insertion step of the sort: x is compared with the elements before it,
\* right to left, and moves left past `shift` of them (the comparisons that
\* came out positive).
InsertShifted(sorted, x, shift) ==
    SubSeq(sorted, 1, Len(sorted) - shift) \o <<x>>
        \o SubSeq(sorted, Len(sorted) - shift + 1, Len(sorted))

\* arr.sort(() => Math.random() - 0.5) as an insertion sort whose comparator
\* results are random: shifts[i] is how far element i moves left.  The result
\* of sorting the first n elements of arr.
RECURSIVE SortRandom(_, _, _)
SortRandom(arr, shifts, n) ==
    IF n = 0 THEN <<>>
    ELSE InsertShifted(SortRandom(arr, shifts, n - 1), arr[n], shifts[n])

\* The comparator outcomes possible for an array of n elements.
ShiftChoices(n) == { s \in [1..n -> 0..(n - 1)] : \A i \in 1..n : s[i] <= i - 1 }

\* const allAnswers = [...incorrect_answers, correct_answer].sort(random):
\* every order the random comparator can produce.
AllAnswersOf(q) ==
    { SortRandom(Combined(q), s, Len(Combined(q))) : s \in ShiftChoices(Len(Combined(q))) }

\* The values `allAnswers` can take in a render of the given hook state.  An
\* index outside the array makes currentQuestion undefined, the render throws
\* and nothing is displayed.
Render(ld, err, go, qs, idx) ==
    IF ~ld /\ err = Null /\ ~go /\ Len(qs) > 0 /\ idx + 1 \in DOMAIN qs
    THEN AllAnswersOf(qs[idx + 1])
    ELSE {<<>>}

\* -------------------------------------------------------------------- Init
\* The useState initial values, before the mount effect has run.
Init ==
    /\ questions = <<>>
    /\ loading = TRUE
    /\ error = Null
    /\ currentQuestionIndex = 0
    /\ selectedAnswer = Null
    /\ score = 0
    /\ showResult = FALSE
    /\ gameOver = FALSE
    /\ allAnswers = <<>>
    /\ mounted = TRUE
    /\ pc = "init"
    /\ retryCount = 0
    /\ token = Null
    /\ timers = <<>>
    /\ tokenReqs = 0
    /\ questionReqs = 0
    /\ only429 = TRUE
    /\ picks = <<>>
    /\ lastEvent = "construct"

\* ------------------------------------------------------------------ loader
\* fetchQuestions whose retries repeat only the question request.
fetchQuestions_SkipToken(rc) ==
    /\ retryCount' = rc
    /\ token' = token
    /\ pc' = IF rc = 0 THEN "token" ELSE "questions"
    /\ tokenReqs' = IF rc = 0 THEN tokenReqs + 1 ELSE tokenReqs
    /\ questionReqs' = IF rc = 0 THEN questionReqs ELSE questionReqs + 1
    /\ IF mounted
       THEN /\ loading' = TRUE
            /\ error' = Null
            /\ allAnswers' \in Render(loading', error', gameOver, questions,
                                      currentQuestionIndex)
       ELSE UNCHANGED <<loading, error, allAnswers>>
    /\ UNCHANGED <<questions, currentQuestionIndex, selectedAnswer, score,
                   showResult, gameOver, mounted, timers, only429, picks>>

\* fetchQuestions(rc) up to its first await: setLoading(true),
\* setError(null), the token request is sent.  State setters of a component
\* that is no longer mounted are dropped by React.
fetchQuestions(rc) ==
    /\ retryCount' = rc
    /\ token' = Null
    /\ pc' = "token"
    /\ tokenReqs' = tokenReqs + 1
    /\ questionReqs' = questionReqs
    /\ IF mounted
       THEN /\ loading' = TRUE
            /\ error' = Null
            /\ allAnswers' \in Render(loading', error', gameOver, questions,
                                      currentQuestionIndex)
       ELSE UNCHANGED <<loading, error, allAnswers>>
    /\ UNCHANGED <<questions, currentQuestionIndex, selectedAnswer, score,
                   showResult, gameOver, mounted, timers, only429, picks>>

\* The mount effect: fetchQuestions() with retryCount = 0.
Mount ==
    /\ pc = "init"
    /\ fetchQuestions(0)
    /\ lastEvent' = "mount"

\* The catch and finally blocks: `retry` is the value of the condition of the
\* if in the catch block.  A retry schedules the timeout and returns, so only
\* the finally block's setLoading(false) runs; otherwise setError precedes it.
CatchWhen(retry) ==
    /\ token' = Null
    /\ UNCHANGED <<retryCount, questions>>
    /\ IF retry
       THEN /\ pc' = "delay"
            /\ IF mounted
               THEN /\ loading' = FALSE
                    /\ error' = error
               ELSE UNCHANGED <<loading, error>>
       ELSE /\ pc' = "done"
            /\ IF mounted
               THEN /\ error' = ErrorMessage
                    /\ loading' = FALSE
               ELSE UNCHANGED <<loading, error>>
    /\ IF mounted
       THEN allAnswers' \in Render(loading', error', gameOver, questions,
                                   currentQuestionIndex)
       ELSE UNCHANGED allAnswers

\* Catch with the retry bound off by one.
Catch_OffByOne(status) ==
    CatchWhen(retryCount <= MaxRetries /\ status = RateLimitStatus)

\* Catch retrying whatever the error is.
Catch_RetryAnyError(status) ==
    CatchWhen(retryCount < MaxRetries)

\* Catch retrying every error that carries an HTTP status.
Catch_RetryAnyStatus(status) ==
    CatchWhen(retryCount < MaxRetries /\ status # NoResponse)

\* Catch retrying server errors as well as 429.
Catch_RetryServerError(status) ==
    CatchWhen(retryCount < MaxRetries /\ status \in {RateLimitStatus, 500})

\* Catch with setError placed before the retry test.
Catch_SetErrorBeforeRetry(status) ==
    /\ token' = Null
    /\ UNCHANGED <<retryCount, questions>>
    /\ pc' = IF retryCount < MaxRetries /\ status = RateLimitStatus
             THEN "delay" ELSE "done"
    /\ IF mounted
       THEN /\ error' = ErrorMessage
            /\ loading' = FALSE
            /\ allAnswers' \in Render(loading', error', gameOver, questions,
                                      currentQuestionIndex)
       ELSE UNCHANGED <<loading, error, allAnswers>>

\* catch (err) followed by finally, for an error whose err.response?.status is
\* `status` (NoResponse when the error carries no response).
Catch(status) ==
    CatchWhen(retryCount < MaxRetries /\ status = RateLimitStatus)

\* The token request settles.
TokenResponse(status, tok) ==
    /\ pc = "token"
    /\ only429' = (only429 /\ status = RateLimitStatus)
    /\ tokenReqs' = tokenReqs
    /\ IF status = HttpOk
       THEN /\ token' = tok
            /\ pc' = "questions"
            /\ questionReqs' = questionReqs + 1
            /\ lastEvent' = "tokenOk"
            /\ UNCHANGED <<retryCount, questions, loading, error, allAnswers>>
       ELSE /\ Catch(status)
            /\ questionReqs' = questionReqs
            /\ lastEvent' = IF status = RateLimitStatus THEN "token429" ELSE "tokenFail"
    /\ UNCHANGED <<currentQuestionIndex, selectedAnswer, score, showResult,
                   gameOver, mounted, timers, picks>>

\* The question request settles.
QuestionsResponse(status, code, results) ==
    /\ pc = "questions"
    /\ only429' = (only429 /\ status = RateLimitStatus)
    /\ UNCHANGED <<tokenReqs, questionReqs>>
    /\ IF status = HttpOk /\ code = ResponseOk
       THEN /\ pc' = "done"
            /\ token' = Null
            /\ retryCount' = retryCount
            /\ lastEvent' = "questionsOk"
            /\ IF mounted
               THEN /\ questions' = results
                    /\ loading' = FALSE
                    /\ error' = error
                    /\ allAnswers' \in Render(loading', error', gameOver,
                                              questions', currentQuestionIndex)
               ELSE UNCHANGED <<questions, loading, error, allAnswers>>
       ELSE IF status = HttpOk
       THEN \* throw new Error("Invalid response from server"): no err.response
            /\ Catch(NoResponse)
            /\ lastEvent' = "questionsBadCode"
       ELSE /\ Catch(status)
            /\ lastEvent' = IF status = RateLimitStatus
                            THEN "questions429" ELSE "questionsFail"
    /\ UNCHANGED <<currentQuestionIndex, selectedAnswer, score, showResult,
                   gameOver, mounted, timers, picks>>

\* setTimeout(() => fetchQuestions(retryCount + 1), 2000) fires.
RetryTimerFires ==
    /\ pc = "delay"
    /\ fetchQuestions(retryCount + 1)
    /\ lastEvent' = "retryTimer"

\* ------------------------------------------------------------ quiz handlers
\* Pending timeouts that an accepted selection or a restart has overtaken
\* (history only: the callbacks themselves are not touched).
MarkStale(ts) == [i \in DOMAIN ts |-> [ts[i] EXCEPT !.stale = TRUE]]

\* handleAnswerSelect that scores without comparing the answer.
handleAnswerSelect_AlwaysScore(answer) ==
    /\ selectedAnswer' = answer
    /\ showResult' = TRUE
    /\ score' = score + 1
    /\ timers' = Append(MarkStale(timers),
                        [idx |-> currentQuestionIndex, len |-> Len(questions),
                         stale |-> FALSE])
    /\ picks' = Append(picks, answer)
    /\ allAnswers' \in Render(loading, error, gameOver, questions,
                              currentQuestionIndex)
    /\ UNCHANGED <<questions, loading, error, currentQuestionIndex, gameOver>>

\* handleAnswerSelect(answer), run from a render whose closure holds the
\* current hook state, and the re-render after it.
handleAnswerSelect(answer) ==
    LET currentQuestion == questions[currentQuestionIndex + 1] IN
    /\ selectedAnswer' = answer
    /\ showResult' = TRUE
    /\ score' = IF answer = currentQuestion.correct_answer THEN score + 1 ELSE score
    /\ timers' = Append(MarkStale(timers),
                        [idx |-> currentQuestionIndex, len |-> Len(questions),
                         stale |-> FALSE])
    /\ picks' = Append(picks, answer)
    /\ allAnswers' \in Render(loading, error, gameOver, questions,
                              currentQuestionIndex)
    /\ UNCHANGED <<questions, loading, error, currentQuestionIndex, gameOver>>

\* Answer buttons without the disabled attribute.
ClickAnswer_NoDisabled(answer) ==
    /\ mounted
    /\ Phase \in {"Active", "Feedback"}
    /\ \E i \in DOMAIN allAnswers : allAnswers[i] = answer
    /\ lastEvent' = "select"
    /\ handleAnswerSelect(answer)
    /\ UNCHANGED <<mounted, loaderState, tokenReqs, questionReqs, only429>>

\* A click on the button of `answer` in the main game display.  The buttons
\* carry disabled={showResult}: a disabled button runs no onClick.
ClickAnswer(answer) ==
    /\ mounted
    /\ Phase \in {"Active", "Feedback"}
    /\ \E i \in DOMAIN allAnswers : allAnswers[i] = answer
    /\ IF showResult
       THEN /\ lastEvent' = "clickDisabled"
            /\ UNCHANGED <<hookState, allAnswers, timers, picks>>
       ELSE /\ lastEvent' = "select"
            /\ handleAnswerSelect(answer)
    /\ UNCHANGED <<mounted, loaderState, tokenReqs, questionReqs, only429>>

\* The callback of setTimeout(..., 1500) in handleAnswerSelect: it reads the
\* currentQuestionIndex and questions of the render that scheduled it.  The
\* test is t.idx < t.len - last; sel and show are the values that
\* setSelectedAnswer and setShowResult are given when it advances.
AdvanceWhen(last, sel, show) ==
    /\ timers # <<>>
    /\ LET t == Head(timers) IN
       /\ timers' = Tail(timers)
       /\ IF mounted
          THEN /\ IF t.idx < t.len - last
                  THEN /\ currentQuestionIndex' = t.idx + 1
                       /\ selectedAnswer' = sel
                       /\ showResult' = show
                       /\ gameOver' = gameOver
                  ELSE /\ gameOver' = TRUE
                       /\ UNCHANGED <<currentQuestionIndex, selectedAnswer, showResult>>
               /\ allAnswers' \in Render(loading, error, gameOver', questions,
                                         currentQuestionIndex')
          ELSE UNCHANGED <<currentQuestionIndex, selectedAnswer, showResult,
                           gameOver, allAnswers>>
    /\ lastEvent' = "advanceTimer"
    /\ UNCHANGED <<questions, loading, error, score, mounted, loaderState,
                   tokenReqs, questionReqs, only429, picks>>

\* The callback comparing against questions.length instead of length - 1.
AdvanceTimerFires_OffByOne == AdvanceWhen(0, Null, FALSE)

\* The callback ending the game one question early.
AdvanceTimerFires_EarlyFinish == AdvanceWhen(2, Null, FALSE)

\* The callback without setSelectedAnswer(null).
AdvanceTimerFires_KeepSelected == AdvanceWhen(1, selectedAnswer, FALSE)

\* The callback without setShowResult(false).
AdvanceTimerFires_KeepShowResult == AdvanceWhen(1, Null, showResult)

\* The timeout callback of handleAnswerSelect fires:
\* currentQuestionIndex < questions.length - 1 advances with
\* setSelectedAnswer(null) and setShowResult(false), else setGameOver(true).
AdvanceTimerFires == AdvanceWhen(1, Null, FALSE)

\* The hook state as one record, the argument of handleRestartGame.
HookRecord ==
    [questions |-> questions, loading |-> loading, error |-> error,
     currentQuestionIndex |-> currentQuestionIndex,
     selectedAnswer |-> selectedAnswer, score |-> score,
     showResult |-> showResult, gameOver |-> gameOver]

\* handleRestartGame without setScore(0).
handleRestartGame_KeepScore(s) ==
    [s EXCEPT !.currentQuestionIndex = 0,
              !.selectedAnswer = Null,
              !.showResult = FALSE,
              !.gameOver = FALSE]

\* handleRestartGame without setCurrentQuestionIndex(0).
handleRestartGame_KeepIndex(s) ==
    [s EXCEPT !.score = 0,
              !.selectedAnswer = Null,
              !.showResult = FALSE,
              !.gameOver = FALSE]

\* handleRestartGame without setGameOver(false).
handleRestartGame_KeepGameOver(s) ==
    [s EXCEPT !.currentQuestionIndex = 0,
              !.score = 0,
              !.selectedAnswer = Null,
              !.showResult = FALSE]

\* handleRestartGame(): the hook state its five setters leave, given the hook
\* state s it is called in.
handleRestartGame(s) ==
    [s EXCEPT !.currentQuestionIndex = 0,
              !.score = 0,
              !.selectedAnswer = Null,
              !.showResult = FALSE,
              !.gameOver = FALSE]

\* A click on "Play Again", which only the game-over screen renders: it runs
\* handleRestartGame, and the component re-renders.
ClickRestart ==
    /\ mounted
    /\ Phase = "Finished"
    /\ LET s == handleRestartGame(HookRecord) IN
       /\ questions' = s.questions
       /\ loading' = s.loading
       /\ error' = s.error
       /\ currentQuestionIndex' = s.currentQuestionIndex
       /\ selectedAnswer' = s.selectedAnswer
       /\ score' = s.score
       /\ showResult' = s.showResult
       /\ gameOver' = s.gameOver
    /\ timers' = MarkStale(timers)
    /\ picks' = <<>>
    /\ allAnswers' \in Render(loading', error', gameOver', questions',
                              currentQuestionIndex')
    /\ lastEvent' = "restart"
    /\ UNCHANGED <<mounted, loaderState, tokenReqs, questionReqs, only429>>

\* The component is unmounted.  The effect returns no cleanup function, so
\* neither timeout is cleared and no request is aborted.
Teardown ==
    /\ mounted
    /\ pc # "init"
    /\ mounted' = FALSE
    /\ lastEvent' = "teardown"
    /\ UNCHANGED <<hookState, allAnswers, loaderState, timers, tokenReqs,
                   questionReqs, only429, picks>>

\* ------------------------------------------------------------ specification
Next ==
    \/ Mount
    \/ \E status \in Statuses, tok \in Tokens : TokenResponse(status, tok)
    \/ \E status \in Statuses, code \in ResponseCodes, results \in Batches :
           QuestionsResponse(status, code, results)
    \/ RetryTimerFires
    \/ \E answer \in {"Paris", "Rome", "42", "7"} : ClickAnswer(answer)
    \/ AdvanceTimerFires
    \/ ClickRestart
    \/ Teardown

Spec == Init /\ [][Next]_vars

\* The same program when the mount effect runs, every request is eventually
\* answered or fails, and every scheduled timeout eventually fires.
FairSpec ==
    /\ Spec
    /\ WF_vars(Mount)
    /\ WF_vars(\E status \in Statuses, tok \in Tokens : TokenResponse(status, tok))
    /\ WF_vars(\E status \in Statuses, code \in ResponseCodes, results \in Batches :
                   QuestionsResponse(status, code, results))
    /\ WF_vars(RetryTimerFires)
    /\ WF_vars(AdvanceTimerFires)

\* ------------------------------------------------------------------ claims
\* The question the main game display shows.
CurrentQuestion == questions[currentQuestionIndex + 1]

\* Once fetchQuestions has reached its outcome no request is issued any more.
LoaderStaysDone ==
    pc = "done" => /\ pc' = "done"
                   /\ tokenReqs' = tokenReqs
                   /\ questionReqs' = questionReqs

\* C1: against a service that answers every request with 429 the loader makes
\* exactly 4 attempts (retryCount never above 3), every attempt after the
\* first is started by the retry timeout firing, and it ends Failed with no
\* further attempt.
C1_RetryBound ==
    /\ [](retryCount <= MaxRetries)
    /\ [](only429 /\ pc = "done" =>
             /\ tokenReqs = MaxRetries + 1
             /\ retryCount = MaxRetries
             /\ (mounted => Phase = "Failed"))
    /\ [][tokenReqs' # tokenReqs /\ tokenReqs >= 1 =>
             /\ pc = "delay"
             /\ lastEvent' = "retryTimer"
             /\ tokenReqs' = tokenReqs + 1]_vars
    /\ [][LoaderStaysDone]_vars

C1_Witness ==
    /\ only429 /\ pc = "done" /\ mounted
    /\ tokenReqs = 4 /\ questionReqs = 0 /\ retryCount = 3
    /\ Phase = "Failed"

\* C2: a question response with a nonzero response_code never schedules a
\* retry, at any retry count: no further request is issued and the session
\* goes directly to Failed.
C2_NoRetryOnBadCode ==
    /\ [][pc = "questions" /\ lastEvent' = "questionsBadCode" =>
             /\ pc' = "done"
             /\ tokenReqs' = tokenReqs
             /\ questionReqs' = questionReqs
             /\ (mounted => Phase' = "Failed")]_vars
    /\ [][LoaderStaysDone]_vars

C2_Witness ==
    /\ lastEvent = "questionsBadCode" /\ retryCount = 2
    /\ pc = "done" /\ Phase = "Failed"

\* C3: a selection made during Feedback is not accepted: it changes neither
\* score nor selectedAnswer.
C3_NoSelectInFeedback ==
    [][Phase = "Feedback" /\ lastEvent' \in {"select", "clickDisabled"} =>
          /\ score' = score
          /\ selectedAnswer' = selectedAnswer
          /\ picks' = picks]_vars

C3_Witness ==
    /\ Phase = "Feedback" /\ lastEvent = "clickDisabled"
    /\ score = 1 /\ selectedAnswer = CurrentQuestion.correct_answer

\* C4: in every reachable state 0 <= score <= questions.length.
C4_ScoreBounds == 0 <= score /\ score <= Len(questions)

C4_Witness ==
    /\ Phase = "Finished" /\ Len(questions) >= 2 /\ score = Len(questions)
    /\ lastEvent = "advanceTimer" /\ tokenReqs >= 2

\* The questions of the current play-through answered with exactly their
\* correct answer.
CorrectPicks ==
    { i \in 1..Len(picks) : picks[i] = questions[i].correct_answer }

\* C5: score counts the questions whose selected answer equals the correct
\* answer, and a play-through of all N >= 1 questions ends in Finished.
C5_ScoreIsCorrectCount ==
    /\ score = Cardinality(CorrectPicks)
    /\ Phase = "Finished" => Len(picks) = Len(questions)
    /\ (mounted /\ Len(questions) >= 1 /\ Len(picks) = Len(questions)
            /\ timers = <<>>) => Phase = "Finished"

C5_Witness ==
    /\ questions = << [correct_answer |-> "Paris", incorrect_answers |-> <<"Rome", "42">>],
                      [correct_answer |-> "42", incorrect_answers |-> <<"7">>] >>
    /\ picks = <<"Paris", "7">>
    /\ score = 1
    /\ Phase = "Finished"

\* C6: restart from Finished yields currentIndex 0, score 0, no selection and
\* phase Active with the same questions, and a further restart of that state
\* yields the same state again.
C6_RestartIdempotent ==
    [][lastEvent' = "restart" =>
          /\ Phase = "Finished"
          /\ currentQuestionIndex' = 0
          /\ score' = 0
          /\ selectedAnswer' = Null
          /\ Phase' = "Active"
          /\ questions' = questions
          /\ handleRestartGame(handleRestartGame(HookRecord)) = HookRecord']_vars

C6_Witness ==
    /\ lastEvent = "restart" /\ Phase = "Active"
    /\ Len(questions) >= 2 /\ score = 0 /\ currentQuestionIndex = 0

\* Sequences a and b hold the same elements the same number of times.
IsPermutation(a, b) ==
    /\ Len(a) = Len(b)
    /\ \A x \in {a[i] : i \in DOMAIN a} \cup {b[i] : i \in DOMAIN b} :
           Cardinality({i \in DOMAIN a : a[i] = x})
               = Cardinality({i \in DOMAIN b : b[i] = x})

\* C7: the presented answers are a permutation of the incorrect answers
\* together with the correct answer; as a set they are exactly those options.
C7_AnswersArePermutation ==
    Phase \in {"Active", "Feedback"} =>
        /\ IsPermutation(allAnswers, Combined(CurrentQuestion))
        /\ {allAnswers[i] : i \in DOMAIN allAnswers}
               = {CurrentQuestion.correct_answer}
                    \cup {CurrentQuestion.incorrect_answers[i] :
                             i \in DOMAIN CurrentQuestion.incorrect_answers}

C7_Witness ==
    /\ Phase = "Active"
    /\ Len(allAnswers) = 3
    /\ allAnswers[1] = CurrentQuestion.correct_answer

\* C8: a retry delay pending at teardown is cancelled: the torn-down loader
\* issues no request and changes no session state.
C8_RetryCancelledOnTeardown ==
    [][~mounted /\ pc = "delay" =>
          /\ tokenReqs' = tokenReqs
          /\ questionReqs' = questionReqs
          /\ loading' = loading
          /\ error' = error
          /\ questions' = questions]_vars

\* C9: the auto-advance timeout is cancelled on teardown, and when it fires
\* the session is still in the Feedback of the question and play-through
\* that scheduled it.
C9_AdvanceTimerNeverStale ==
    [][timers # <<>> /\ lastEvent' = "advanceTimer" =>
          /\ mounted
          /\ Phase = "Feedback"
          /\ Head(timers).idx = currentQuestionIndex
          /\ ~Head(timers).stale]_vars

\* C10 as stated: no failure of the token request is retried.
C10_TokenFailureNeverRetried ==
    /\ [][pc = "token" /\ lastEvent' \in {"token429", "tokenFail"} =>
             /\ pc' = "done"
             /\ tokenReqs' = tokenReqs
             /\ questionReqs' = questionReqs
             /\ (mounted => Phase' = "Failed")]_vars
    /\ [][LoaderStaysDone]_vars

\* C10 amended: a failure of the token request is not retried unless it is a
\* 429 received while fewer than 3 retries have been made; every other token
\* failure ends the load in Failed with no further request.
C10_TokenFailureRetriedOnlyOn429 ==
    /\ [][(pc = "token"
            /\ lastEvent' \in {"token429", "tokenFail"}
            /\ ~(lastEvent' = "token429" /\ retryCount < MaxRetries)) =>
             /\ pc' = "done"
             /\ tokenReqs' = tokenReqs
             /\ questionReqs' = questionReqs
             /\ (mounted => Phase' = "Failed")]_vars
    /\ [][pc = "token" /\ lastEvent' = "token429" /\ retryCount < MaxRetries =>
             pc' = "delay" /\ tokenReqs' = tokenReqs]_vars
    /\ [][LoaderStaysDone]_vars

C10_Witness ==
    /\ lastEvent = "tokenFail" /\ retryCount >= 1
    /\ pc = "done" /\ Phase = "Failed"

\* C11: a transport failure other than 429 (or without any status) leads to
\* Failed at once, at any retry count; a retry is scheduled only by a 429
\* received while fewer than 3 retries have been made.
C11_OnlyRateLimitRetried ==
    /\ [][(pc \in {"token", "questions"}
            /\ lastEvent' \in {"tokenFail", "questionsFail"}) =>
             /\ pc' = "done"
             /\ tokenReqs' = tokenReqs
             /\ questionReqs' = questionReqs
             /\ (mounted => Phase' = "Failed")]_vars
    /\ [][pc # "delay" /\ pc' = "delay" =>
             /\ lastEvent' \in {"token429", "questions429"}
             /\ retryCount < MaxRetries]_vars

C11_Witness ==
    /\ lastEvent = "questionsFail" /\ retryCount = MaxRetries
    /\ pc = "done" /\ Phase = "Failed" /\ questionReqs >= 2

\* C12: the session stays in Loading from creation until the loader reaches
\* its outcome, retry delays included, and then moves once, to Active or
\* Failed.
C12_LoadingUntilOutcome ==
    /\ [](mounted /\ pc # "done" => Phase = "Loading")
    /\ [][mounted /\ Phase = "Loading" /\ Phase' # "Loading" =>
             pc' = "done" /\ Phase' \in {"Active", "Failed"}]_vars

\* C13: while the phase is Active or Feedback,
\* 0 <= currentIndex < questions.length.
C13_IndexInRange ==
    Phase \in {"Active", "Feedback"} =>
        0 <= currentQuestionIndex /\ currentQuestionIndex < Len(questions)

C13_Witness ==
    /\ Phase = "Active" /\ lastEvent = "advanceTimer"
    /\ Len(questions) >= 2 /\ currentQuestionIndex = Len(questions) - 1

\* C14 as stated: selectedAnswer is set only while the phase is Feedback.
C14_SelectedOnlyInFeedback ==
    selectedAnswer # Null => Phase = "Feedback"

\* C14 amended: selectedAnswer is set only while the phase is Feedback or
\* Finished (the last selection stays until restart), and it is set
\* throughout Feedback.
C14_SelectedOnlyInFeedbackOrFinished ==
    /\ selectedAnswer # Null => Phase \in {"Feedback", "Finished"}
    /\ Phase = "Feedback" => selectedAnswer # Null

C14_Witness ==
    /\ Phase = "Finished" /\ selectedAnswer # Null
    /\ lastEvent = "advanceTimer" /\ mounted

\* C15: the presented answer order stays fixed for the duration of a
\* question: the order shown during Feedback is the one shown when the
\* answer was selected.
C15_AnswerOrderFixed ==
    [][(Phase \in {"Active", "Feedback"} /\ Phase' \in {"Active", "Feedback"}
          /\ currentQuestionIndex' = currentQuestionIndex
          /\ lastEvent' \in {"select", "clickDisabled"}) =>
             allAnswers' = allAnswers]_vars

\* C16: once Failed, no event changes the session state or issues a request;
\* once Finished, the state changes only through restart, which leads to
\* Active.
C16_TerminalPhases ==
    /\ [][Phase = "Failed" =>
             /\ UNCHANGED hookState
             /\ pc' = pc
             /\ tokenReqs' = tokenReqs
             /\ questionReqs' = questionReqs]_vars
    /\ [][Phase = "Finished" =>
             /\ tokenReqs' = tokenReqs
             /\ questionReqs' = questionReqs
             /\ (hookState' # hookState =>
                    lastEvent' = "restart" /\ Phase' = "Active")]_vars

C16_Witness ==
    /\ Phase = "Failed" /\ lastEvent = "teardown"
    /\ pc = "done" /\ retryCount = 1

\* C17: when requests are answered and timeouts fire, the load reaches its
\* outcome; the outcome is either Failed, with no questions, or the loaded
\* questions, with no error (Active and its successors when there is at
\* least one question), and no error is set while the loader is still
\* running or waiting to retry.
C17_LoadTerminates ==
    /\ <>(pc = "done")
    /\ [](pc # "done" => error = Null)
    /\ [](mounted /\ pc = "done" =>
             /\ ~loading
             /\ (error # Null => questions = <<>> /\ Phase = "Failed")
             /\ (error = Null /\ questions # <<>> =>
                    Phase \in {"Active", "Feedback", "Finished"}))

C17_Witness ==
    /\ pc = "done" /\ lastEvent = "questionsOk" /\ retryCount = 2
    /\ Phase = "Active" /\ error = Null

\* C18: every attempt first requests a token and issues its question request
\* only on that token's response, carrying that token; no attempt starts
\* with a token of an earlier one.
C18_FreshTokenEachAttempt ==
    /\ [](pc = "token" => token = Null)
    /\ [](pc = "questions" => token \in Tokens)
    /\ [](pc # "init" => tokenReqs = retryCount + 1 /\ questionReqs <= tokenReqs)
    /\ [][questionReqs' # questionReqs =>
             /\ pc = "token"
             /\ lastEvent' = "tokenOk"
             /\ pc' = "questions"
             /\ questionReqs' = questionReqs + 1
             /\ token' \in Tokens]_vars
    /\ [][tokenReqs' # tokenReqs =>
             /\ lastEvent' \in {"mount", "retryTimer"}
             /\ pc' = "token"
             /\ token' = Null
             /\ tokenReqs' = tokenReqs + 1]_vars

C18_Witness ==
    /\ pc = "questions" /\ retryCount = 2 /\ token = "tokB"
    /\ tokenReqs = 3 /\ questionReqs = 2

\* C19: Finished is entered only by the timeout firing in the Feedback of the
\* last question; a firing raises currentIndex by exactly 1 when questions
\* remain; in Finished currentIndex = questions.length - 1 and
\* questions.length selections have been accepted.
C19_FinishedOnlyAfterLast ==
    /\ [](Phase = "Finished" =>
             /\ currentQuestionIndex = Len(questions) - 1
             /\ Len(picks) = Len(questions))
    /\ [][Phase # "Finished" /\ Phase' = "Finished" =>
             /\ Phase = "Feedback"
             /\ lastEvent' = "advanceTimer"
             /\ currentQuestionIndex = Len(questions) - 1]_vars
    /\ [][(mounted /\ timers # <<>> /\ lastEvent' = "advanceTimer") =>
             IF currentQuestionIndex < Len(questions) - 1
             THEN /\ currentQuestionIndex' = currentQuestionIndex + 1
                  /\ Phase' = "Active"
             ELSE /\ currentQuestionIndex' = currentQuestionIndex
                  /\ Phase' = "Finished"]_vars

C19_Witness ==
    /\ Phase = "Finished" /\ Len(questions) >= 2 /\ score = 0
    /\ currentQuestionIndex = Len(questions) - 1 /\ mounted

\* C20: at most one auto-advance timeout is pending, and one is pending
\* exactly while the session is in Feedback (none in Active or Finished).
C20_OneTimerInFeedback ==
    /\ Len(timers) <= 1
    /\ timers # <<>> => Phase = "Feedback"
    /\ (mounted /\ Phase = "Feedback") => timers # <<>>

C20_Witness ==
    /\ mounted /\ Phase = "Feedback" /\ Len(timers) = 1
    /\ currentQuestionIndex = 1 /\ lastEvent = "select"

====
